---- MODULE Spec2Model ----
(***************************************************************************)
(* Invoice generator: the record resolver and payment calculation of       *)
(* create_invoice_pdf (invoice_generator.py), the batch run main() and the *)
(* generation pass of the Streamlit front end (web_app.py), and the text   *)
(* helpers sanitize_filename and wrap_text called on their own.            *)
(*                                                                         *)
(* Texts are sequences of one-character strings, so that trimming, case    *)
(* folding, substring search, number parsing and filename sanitising are   *)
(* computed character by character as Python computes them.  A row is a    *)
(* function from the column labels it has to cells.  Amounts that may hold *)
(* a half (total * 0.5) are kept in units of 1/HalfUnit.                   *)
(***************************************************************************)
EXTENDS Integers, Sequences, FiniteSets, TLC

VARIABLES
    HARGA_SATUAN,     \* invoice_generator.HARGA_SATUAN, the configured unit price
    row,              \* single call: the row handed to create_invoice_pdf
    row_index,        \* single call: its row_index argument
    outcome,          \* single call: what the call did (NoCall before it)
    csv_file,         \* batch: the input file on disk
    df,               \* batch: the data frame read from it
    pc,               \* batch: position in main()
    index,            \* batch: number of rows the loop has consumed
    success_count,    \* batch: main()'s success counter
    error_count,      \* batch: main()'s error counter
    output_dir,       \* batch: documents in OUTPUT_FOLDER, by filename
    attempted,        \* batch: the per-row lines printed by the loop, in order
    summary_printed,  \* batch: the RINGKASAN block was printed
    uploaded_df,      \* web: df, the uploaded data frame (<<>> until it is read)
    web_state,        \* web: "empty", "table" or "read_error"
    pilih,            \* web: the 'Pilih' checkbox of every row
    harga_satuan,     \* web: the sidebar's unit price field
    session_state,    \* web: st.session_state (generated_files, generation_errors)
    fn_args,          \* helper call: the arguments of the text helper called
    fn_result         \* helper call: what it returned (<<>> before the call)

vars == <<HARGA_SATUAN, row, row_index, outcome, csv_file, df, pc, index,
          success_count, error_count, output_dir, attempted, summary_printed,
          uploaded_df, web_state, pilih, harga_satuan, session_state,
          fn_args, fn_result>>

callVars == <<row, row_index, outcome>>
batchVars == <<csv_file, df, pc, index, success_count, error_count, output_dir,
               attempted, summary_printed>>
webVars == <<uploaded_df, web_state, pilih, harga_satuan, session_state>>
fnVars == <<fn_args, fn_result>>

-----------------------------------------------------------------------------
(* Python str operations *)

Whitespace == {" ", "\t"}

UpperToLower ==
    "A" :> "a" @@ "B" :> "b" @@ "C" :> "c" @@ "D" :> "d" @@ "E" :> "e" @@
    "F" :> "f" @@ "G" :> "g" @@ "H" :> "h" @@ "I" :> "i" @@ "J" :> "j" @@
    "K" :> "k" @@ "L" :> "l" @@ "M" :> "m" @@ "N" :> "n" @@ "O" :> "o" @@
    "P" :> "p" @@ "Q" :> "q" @@ "R" :> "r" @@ "S" :> "s" @@ "T" :> "t" @@
    "U" :> "u" @@ "V" :> "v" @@ "W" :> "w" @@ "X" :> "x" @@ "Y" :> "y" @@
    "Z" :> "z"

\* str.lower()
Lower(s) ==
    [i \in 1..Len(s) |-> IF s[i] \in DOMAIN UpperToLower THEN UpperToLower[s[i]] ELSE s[i]]

SetMin(S) == CHOOSE x \in S : \A y \in S : x <= y
SetMax(S) == CHOOSE x \in S : \A y \in S : x >= y

\* str.strip()
Strip(s) ==
    LET keep == {i \in 1..Len(s) : s[i] \notin Whitespace}
    IN  IF keep = {} THEN <<>> ELSE SubSeq(s, SetMin(keep), SetMax(keep))

\* sub in s
Contains(s, sub) ==
    \E i \in 0..(Len(s) - Len(sub)) : SubSeq(s, i + 1, i + Len(sub)) = sub

Digits == {"0", "1", "2", "3", "4", "5", "6", "7", "8", "9"}

DigitVal ==
    "0" :> 0 @@ "1" :> 1 @@ "2" :> 2 @@ "3" :> 3 @@ "4" :> 4 @@
    "5" :> 5 @@ "6" :> 6 @@ "7" :> 7 @@ "8" :> 8 @@ "9" :> 9

DigitChar == <<"0", "1", "2", "3", "4", "5", "6", "7", "8", "9">>

AllDigits(s) == \A i \in 1..Len(s) : s[i] \in Digits

RECURSIVE DecVal(_)
DecVal(s) ==
    IF s = <<>> THEN 0
    ELSE 10 * DecVal(SubSeq(s, 1, Len(s) - 1)) + DigitVal[s[Len(s)]]

RECURSIVE Pow10(_)
Pow10(n) == IF n = 0 THEN 1 ELSE 10 * Pow10(n - 1)

RECURSIVE NatToStr(_)
NatToStr(n) ==
    IF n < 10 THEN <<DigitChar[n + 1]>>
    ELSE NatToStr(n \div 10) \o <<DigitChar[(n % 10) + 1]>>

\* str(n) of an int
IntToStr(n) == IF n < 0 THEN <<"-">> \o NatToStr(0 - n) ELSE NatToStr(n)

RECURSIVE StripLeadingZeros(_)
StripLeadingZeros(s) ==
    IF s # <<>> /\ Head(s) = "0" THEN StripLeadingZeros(Tail(s)) ELSE s

-----------------------------------------------------------------------------
(* float(text) and int(float): the quantity conversion of lines 131-134 *)

\* Decimal exponent above which a double is infinite (sys.float_info.max_10_exp + 1).
FloatMaxDigits == 309

w_inf == <<"i", "n", "f">>
w_infinity == <<"i", "n", "f", "i", "n", "i", "t", "y">>
w_nan == <<"n", "a", "n">>

HasSign(s) == s # <<>> /\ Head(s) \in {"+", "-"}
Negative(s) == s # <<>> /\ Head(s) = "-"
Unsigned(s) == IF HasSign(s) THEN Tail(s) ELSE s

\* The first position of s that holds one of chars, 0 when there is none.
FirstPos(s, chars) ==
    IF \E i \in 1..Len(s) : s[i] \in chars
    THEN SetMin({i \in 1..Len(s) : s[i] \in chars}) ELSE 0

Count(s, chars) == Cardinality({i \in 1..Len(s) : s[i] \in chars})

\* The part of s before position p (all of s when p = 0) and the part after it.
Before(s, p) == IF p = 0 THEN s ELSE SubSeq(s, 1, p - 1)
After(s, p) == IF p = 0 THEN <<>> ELSE SubSeq(s, p + 1, Len(s))

FloatErr == [k |-> "err", v |-> 0]
FloatInf == [k |-> "inf", v |-> 0]
FloatNan == [k |-> "nan", v |-> 0]

\* The integer part of sig * 10^shift, for digits sig without leading zeros.
TruncDecimal(sig, shift) ==
    IF sig = <<>> \/ Len(sig) + shift <= 0 THEN 0
    ELSE IF shift >= 0 THEN DecVal(sig) * Pow10(shift)
    ELSE DecVal(SubSeq(sig, 1, Len(sig) + shift))

\* The double for sig * 10^shift: infinite past the range of a double.
FloatOfDecimal(neg, sig, shift) ==
    IF sig # <<>> /\ (Len(sig) + shift > FloatMaxDigits
                      \/ (Len(sig) + shift = FloatMaxDigits /\ DigitVal[Head(sig)] >= 2))
    THEN FloatInf
    ELSE [k |-> "num",
          v |-> IF neg THEN 0 - TruncDecimal(sig, shift) ELSE TruncDecimal(sig, shift)]

\* The value of the digits of an exponent; an exponent of more than four
\* digits is past every range and is not evaluated.
ExponentMagnitude(edig) ==
    IF Len(StripLeadingZeros(edig)) > 4 THEN 10000 ELSE DecVal(edig)

ExponentOf(etxt) ==
    IF Negative(etxt) THEN 0 - ExponentMagnitude(Unsigned(etxt))
    ELSE ExponentMagnitude(Unsigned(etxt))

FloatOfParts(neg, ipart, fpart, etxt) ==
    IF /\ AllDigits(ipart) /\ AllDigits(fpart) /\ ipart \o fpart # <<>>
       /\ Unsigned(etxt) # <<>> /\ AllDigits(Unsigned(etxt))
    THEN FloatOfDecimal(neg, StripLeadingZeros(ipart \o fpart), ExponentOf(etxt) - Len(fpart))
    ELSE FloatErr

FloatOfMantissa(neg, mant, etxt) ==
    IF Count(mant, {"."}) > 1 THEN FloatErr
    ELSE FloatOfParts(neg, Before(mant, FirstPos(mant, {"."})),
                      After(mant, FirstPos(mant, {"."})), etxt)

FloatOfBody(neg, body) ==
    IF Lower(body) = w_inf \/ Lower(body) = w_infinity THEN FloatInf
    ELSE IF Lower(body) = w_nan THEN FloatNan
    ELSE IF Count(body, {"e", "E"}) > 1 THEN FloatErr
    ELSE FloatOfMantissa(neg, Before(body, FirstPos(body, {"e", "E"})),
                         IF FirstPos(body, {"e", "E"}) = 0 THEN <<"0">>
                         ELSE After(body, FirstPos(body, {"e", "E"})))

\* float(text): k is "err" for ValueError, "nan", "inf", or "num" with the
\* value truncated toward zero in v (the only use the code makes of the float).
PyFloat(text) == FloatOfBody(Negative(Strip(text)), Unsigned(Strip(text)))

\* The outcome of int(f) under the except clause of line 133.
QtyOfFloat(f) ==
    IF f.k = "num" THEN [raised |-> "", qty |-> f.v]
    ELSE IF f.k = "inf" THEN [raised |-> "OverflowError", qty |-> 0]
    ELSE [raised |-> "", qty |-> 1]

\* try: qty = int(float(qty_raw))  except (ValueError, TypeError): qty = 1
\* int(inf) raises OverflowError, which the except clause does not name.
QtyOf(qty_raw) == QtyOfFloat(PyFloat(qty_raw))

-----------------------------------------------------------------------------
(* Cells and rows of the data frame *)

\* A cell as pandas holds it: a missing value, a text, an integer or an
\* integral float (v is the number, t the text).
NaN == [k |-> "nan", v |-> 0, t |-> <<>>]
StrCell(text) == [k |-> "str", v |-> 0, t |-> text]
IntCell(n) == [k |-> "int", v |-> n, t |-> <<>>]
FloatCell(n) == [k |-> "float", v |-> n, t |-> <<>>]
FloatInfCell == [k |-> "float", v |-> 0, t |-> w_inf]

\* str(row[name])
CellStr(c) ==
    IF c.k = "str" THEN c.t
    ELSE IF c.k = "int" THEN IntToStr(c.v)
    ELSE IF c.k = "float" /\ c.t = w_inf THEN w_inf
    ELSE IF c.k = "float" THEN IntToStr(c.v) \o <<".", "0">>
    ELSE w_nan

\* pd.notna(row[name])
NotNa(c) == c.k # "nan"

T_dash == <<"-">>
T_one == <<"1">>
T_Unknown == <<"U", "n", "k", "n", "o", "w", "n">>
T_ORDER == <<"O", "R", "D", "E", "R">>

OrderIdNames == <<"ORDER-ID", "Order ID", "ORDER ID", "order-id", "OrderID">>
NamaNames == <<"Nama Lengkap", "Nama", "Name", "NAMA LENGKAP">>
QtyNames == <<"Jumlah (QTY)", "Jumlah", "QTY", "Qty", "JUMLAH (QTY)">>
MetodeNames == <<"Metode Pembayaran", "Metode", "Payment Method", "METODE PEMBAYARAN">>
StatusNames == <<"STATUS PEMBAYARAN", "Status Pembayaran", "Status", "Payment Status">>

\* Mutant of get_column_value: the first candidate that exists wins, even
\* when its cell is null or blank.
RECURSIVE get_column_value_first_present(_, _, _)
get_column_value_first_present(r, possible_names, default) ==
    IF possible_names = <<>> THEN default
    ELSE LET name == Head(possible_names)
         IN  IF name \in DOMAIN r
             THEN (IF NotNa(r[name]) /\ Strip(CellStr(r[name])) # <<>>
                   THEN Strip(CellStr(r[name])) ELSE default)
             ELSE get_column_value_first_present(r, Tail(possible_names), default)

RECURSIVE get_column_value(_, _, _)
get_column_value(r, possible_names, default) ==
    IF possible_names = <<>> THEN default
    ELSE LET name == Head(possible_names)
         IN  IF name \in DOMAIN r /\ NotNa(r[name]) /\ Strip(CellStr(r[name])) # <<>>
             THEN Strip(CellStr(r[name]))
             ELSE get_column_value(r, Tail(possible_names), default)

-----------------------------------------------------------------------------
(* sanitize_filename *)

IllegalChars == {"<", ">", ":", "\"", "/", "\\", "|", "?", "*"}

\* re.sub(r'_+', '_', s)
RECURSIVE CollapseUnderscores(_)
CollapseUnderscores(s) ==
    IF Len(s) < 2 THEN s
    ELSE IF s[1] = "_" /\ s[2] = "_" THEN CollapseUnderscores(Tail(s))
    ELSE <<s[1]>> \o CollapseUnderscores(Tail(s))

\* s.strip('_')
StripUnderscores(s) ==
    LET keep == {i \in 1..Len(s) : s[i] # "_"}
    IN  IF keep = {} THEN <<>> ELSE SubSeq(s, SetMin(keep), SetMax(keep))

\* Mutant of sanitize_filename: the final strip('_') is left out.
sanitize_filename_unstripped(name) ==
    CollapseUnderscores([i \in 1..Len(name) |->
                            IF name[i] \in IllegalChars \/ name[i] = " " THEN "_" ELSE name[i]])

sanitize_filename(name) ==
    LET replaced == [i \in 1..Len(name) |->
                        IF name[i] \in IllegalChars \/ name[i] = " " THEN "_" ELSE name[i]]
    IN  StripUnderscores(CollapseUnderscores(replaced))

\* f"Invoice_{safe_order_id}_{safe_nama}.pdf"
InvoiceFilename(order_id, nama) ==
    <<"I", "n", "v", "o", "i", "c", "e", "_">> \o sanitize_filename(order_id)
        \o <<"_">> \o sanitize_filename(nama) \o <<".", "p", "d", "f">>

-----------------------------------------------------------------------------
(* create_invoice_pdf *)

\* total_harga * 0.5 is a float that may hold a half: jumlah_dibayar and
\* sisa_tagihan are kept in units of 1/HalfUnit rupiah.
HalfUnit == 2

w_dp == <<"d", "p">>
w_50pct == <<"5", "0", "%">>
w_lunas == <<"l", "u", "n", "a", "s">>

\* The parameters of def create_invoice_pdf (line 120).
CreateInvoicePdfParams == {"row", "row_index", "output_path", "logo_path"}

NoCall == [called |-> FALSE]

\* line 150
IsDp(metode_bayar) ==
    Contains(Lower(metode_bayar), w_dp) \/ Contains(Lower(metode_bayar), w_50pct)

\* Mutant of JumlahDibayar: a down payment whose status says lunas counts as paid in full.
JumlahDibayarStatusFirst(total_harga, is_dp, status_bayar) ==
    IF Contains(Lower(status_bayar), w_lunas) THEN HalfUnit * total_harga
    ELSE IF is_dp THEN total_harga
    ELSE 0

\* Mutant of JumlahDibayar: the status is searched without lower-casing it.
JumlahDibayarCaseSensitive(total_harga, is_dp, status_bayar) ==
    IF is_dp THEN total_harga
    ELSE IF Contains(status_bayar, w_lunas) THEN HalfUnit * total_harga
    ELSE 0

\* lines 152-156, in units of 1/HalfUnit
JumlahDibayar(total_harga, is_dp, status_bayar) ==
    IF is_dp THEN total_harga
    ELSE IF Contains(Lower(status_bayar), w_lunas) THEN HalfUnit * total_harga
    ELSE 0

\* Mutant of SisaTagihan: the remainder of a down payment is the whole total.
SisaTagihanFull(total_harga, jumlah_dibayar) == HalfUnit * total_harga

\* lines 154 and 157, in units of 1/HalfUnit
SisaTagihan(total_harga, jumlah_dibayar) == HalfUnit * total_harga - jumlah_dibayar

\* line 147
TotalHarga(harga, qty) == harga * qty

\* lines 335-345: the labels of the payment summary, top to bottom
SummaryData(is_dp, sisa_tagihan) ==
    <<"Total Harga:">> \o
    (IF is_dp THEN <<"DP 50% Dibayar:", "SISA TAGIHAN:">>
     ELSE <<"Jumlah Dibayar:">> \o
          (IF sisa_tagihan > 0 THEN <<"SISA TAGIHAN:">> ELSE <<>>))

\* lines 357-360: the summary line drawn in ACCENT_COLOR at size 12 (0: none)
HighlightedLine(summary_data) ==
    IF Len(summary_data) > 1 THEN Len(summary_data) ELSE 0

\* Mutant of BankBlock: the block is also drawn for a settled invoice.
BankBlockUnlessOverpaid(sisa_tagihan) == sisa_tagihan >= 0

\* line 387: the bank transfer block is appended to the content
BankBlock(sisa_tagihan) == sisa_tagihan > 0

\* line 367
StatusColor(status_bayar) ==
    IF Contains(Lower(status_bayar), w_lunas) THEN "SUCCESS_COLOR" ELSE "ACCENT_COLOR"

\* line 124: the order id of the document's title row
OrderIdInDocument(r, r_index) == get_column_value(r, OrderIdNames, T_dash)

\* lines 131-134
ResolveQty(qty_raw) == QtyOf(qty_raw)

\* lines 124-137: the fields create_invoice_pdf resolves from the row
ResolvedFields(r, r_index) ==
    [order_id |-> OrderIdInDocument(r, r_index),
     nama |-> get_column_value(r, NamaNames, T_dash),
     qty_raw |-> get_column_value(r, QtyNames, T_one),
     metode_bayar |-> get_column_value(r, MetodeNames, T_dash),
     status_bayar |-> get_column_value(r, StatusNames, T_dash)]

\* lines 152-157 for a total and a classification
PaymentOf(total_harga, is_dp, jumlah_dibayar) ==
    [total_harga |-> total_harga,
     is_dp |-> is_dp,
     jumlah_dibayar |-> jumlah_dibayar,
     sisa_tagihan |-> SisaTagihan(total_harga, jumlah_dibayar)]

\* lines 146-157
Payment(total_harga, is_dp, status_bayar) ==
    PaymentOf(total_harga, is_dp, JumlahDibayar(total_harga, is_dp, status_bayar))

\* lines 334-403: the parts of the document that depend on the payment
LayoutOf(summary_data, status_bayar, sisa_tagihan) ==
    [summary_data |-> summary_data,
     highlighted |-> HighlightedLine(summary_data),
     status_color |-> StatusColor(status_bayar),
     bank_block |-> BankBlock(sisa_tagihan)]

Layout(pay, status_bayar) ==
    LayoutOf(SummaryData(pay.is_dp, pay.sisa_tagihan), status_bayar, pay.sisa_tagihan)

\* The exception the call ends with ("" for none): the quantity conversion's,
\* or the one of doc.build(content).
RaisedBy(q, build_ok) ==
    IF q.raised # "" THEN q.raised ELSE IF ~build_ok THEN "BuildError" ELSE ""

CallResult(f, q, pay, r_index, output_path, build_ok) ==
    [called |-> TRUE,
     row_index |-> r_index,
     raised |-> RaisedBy(q, build_ok),
     written |-> RaisedBy(q, build_ok) = "",
     output_path |-> output_path,
     order_id |-> f.order_id,
     nama |-> f.nama,
     qty_raw |-> f.qty_raw,
     qty |-> q.qty,
     metode_bayar |-> f.metode_bayar,
     status_bayar |-> f.status_bayar,
     harga_satuan |-> HARGA_SATUAN] @@ pay @@ Layout(pay, f.status_bayar)

PricedCall(f, q, r_index, output_path, build_ok) ==
    CallResult(f, q, Payment(TotalHarga(HARGA_SATUAN, q.qty), IsDp(f.metode_bayar),
                             f.status_bayar),
               r_index, output_path, build_ok)

ResolvedCall(f, r_index, output_path, build_ok) ==
    PricedCall(f, ResolveQty(f.qty_raw), r_index, output_path, build_ok)

\* create_invoice_pdf(row, row_index, output_path, logo_path); build_ok says
\* whether doc.build(content) completes.  The result holds the locals of the
\* call, the exception it raised ("" for none) and whether the file was written.
create_invoice_pdf(r, r_index, output_path, logo_path, build_ok) ==
    ResolvedCall(ResolvedFields(r, r_index), r_index, output_path, build_ok)

\* The record of the call was built: the price calculation of lines 146-157 ran.
RecordBuilt(o) == o.called /\ o.raised # "OverflowError" /\ o.raised # "TypeError"

-----------------------------------------------------------------------------
(* Inputs *)

MaxRows == 2          \* rows of an input file
MaxRowIndex == 1      \* row_index values of a single call

\* HARGA_SATUAN as shipped (line 35); the configuration block invites edits.
DefaultHargaSatuan == 100000
UnitPrices == {-1, 0, 3, DefaultHargaSatuan}

Absent == [k |-> "absent", v |-> 0, t |-> <<>>]

\* The row holding the cells of assign that are not Absent.
RowOf(assign) ==
    [l \in {x \in DOMAIN assign : assign[x] # Absent} |-> assign[l]]

QtyCells ==
    { StrCell(<<"3">>), StrCell(<<"2">>), StrCell(<<"2", ".", "0">>),
      StrCell(<<"0">>), StrCell(<<"-", "3">>), StrCell(<<"0", ".", "5">>),
      StrCell(<<"a", "b", "c">>), StrCell(<<" ", " ">>), StrCell(<<" ", "4", " ">>),
      StrCell(<<"i", "n", "f">>), StrCell(<<"1", "e", "9", "9", "9">>),
      StrCell(<<"n", "a", "n">>), StrCell(<<"1", "e", "1">>),
      IntCell(1), FloatCell(5), NaN, Absent }

MetodeCells ==
    { StrCell(<<"D", "P">>), StrCell(<<"d", "p", " ", "5", "0", "%">>),
      StrCell(<<"T", "r", "a", "n", "s", "f", "e", "r", " ", "5", "0", "%">>),
      StrCell(<<"L", "u", "n", "a", "s", "/", "F", "u", "l", "l", " ",
                "T", "r", "a", "n", "s", "f", "e", "r">>),
      StrCell(<<"C", "O", "D">>), NaN, Absent }

StatusCells ==
    { StrCell(<<"L", "U", "N", "A", "S">>), StrCell(<<"L", "u", "n", "a", "s">>),
      StrCell(<<"B", "e", "l", "u", "m">>), NaN, Absent }

LookupCells ==
    { Absent, NaN, StrCell(<<" ", " ">>), StrCell(<<" ", "A", "1", " ">>),
      StrCell(<<"B", "2">>) }

t_A1 == <<"A", "1">>
t_Jane == <<"J", "a", "n", "e", " ", "D", "o", "e">>
t_DP == <<"D", "P">>
t_COD == <<"C", "O", "D">>
t_Belum == <<"B", "e", "l", "u", "m">>
t_LUNAS == <<"L", "U", "N", "A", "S">>

c_A1 == StrCell(t_A1)
c_Jane == StrCell(t_Jane)

\* Rows that vary the cells the payment calculation reads.
PaymentRows ==
    { RowOf("ORDER-ID" :> c_A1 @@ "Nama Lengkap" :> c_Jane @@ "Jumlah (QTY)" :> q
            @@ "Metode Pembayaran" :> m @@ "STATUS PEMBAYARAN" :> st) :
        q \in QtyCells, m \in MetodeCells, st \in StatusCells }

\* Rows that vary which of several candidate labels hold a usable cell.
LookupRows ==
    { RowOf("ORDER-ID" :> a @@ "Order ID" :> b @@ "OrderID" :> c
            @@ "Nama" :> c_Jane @@ "Qty" :> StrCell(<<"2">>)) :
        a \in LookupCells, b \in LookupCells, c \in LookupCells }
    \cup
    { RowOf("Jumlah (QTY)" :> a @@ "Qty" :> b @@ "Status" :> c
            @@ "Metode" :> StrCell(<<"D", "P">>)) :
        a \in LookupCells \cup {FloatCell(2)}, b \in LookupCells \cup {IntCell(3)},
        c \in StatusCells }

CallRows == PaymentRows \cup LookupRows

BatchIdle ==
    /\ csv_file = [exists |-> FALSE] /\ df = <<>> /\ pc = "idle" /\ index = 0
    /\ success_count = 0 /\ error_count = 0 /\ output_dir = {}
    /\ attempted = <<>> /\ summary_printed = FALSE

WebIdle ==
    /\ uploaded_df = <<>> /\ web_state = "idle" /\ pilih = <<>>
    /\ harga_satuan = 0
    /\ session_state = [has_results |-> FALSE, generated_files |-> <<>>,
                        generation_errors |-> <<>>]

CallIdle == row = <<>> /\ row_index = 0 /\ outcome = NoCall

NoResult == [returned |-> FALSE]

FnIdle == fn_args = <<>> /\ fn_result = NoResult

-----------------------------------------------------------------------------
(* A single call of create_invoice_pdf *)

InitCall ==
    /\ HARGA_SATUAN \in UnitPrices
    /\ row \in CallRows
    /\ row_index \in 0..MaxRowIndex
    /\ outcome = NoCall
    /\ BatchIdle /\ WebIdle /\ FnIdle

\* create_invoice_pdf(row, row_index, output_path, logo_path)
CallCreateInvoicePdf ==
    /\ outcome = NoCall
    /\ \E build_ok \in BOOLEAN :
          outcome' = create_invoice_pdf(row, row_index, <<"o", "u", "t">>, "None", build_ok)
    /\ UNCHANGED <<fnVars, HARGA_SATUAN, row, row_index, batchVars, webVars>>

NextCall == CallCreateInvoicePdf

CallSpec == InitCall /\ [][NextCall]_vars

-----------------------------------------------------------------------------
(* Properties of a single call *)


C2_QuantityAtLeastOne == RecordBuilt(outcome) => outcome.qty >= 1

\* C3: with a unit price >= 0, amountDue is never negative.
C3_AmountDueNonNegative ==
    (RecordBuilt(outcome) /\ HARGA_SATUAN >= 0) => outcome.sisa_tagihan >= 0

\* C4: quantity resolution never raises: it yields the truncated value of a
\* numeric text and 1 for every text that cannot be turned into an integer.
C4_QuantityNeverRaises ==
    outcome.called =>
        /\ outcome.raised # "OverflowError"
        /\ outcome.qty = (IF PyFloat(outcome.qty_raw).k = "num"
                          THEN PyFloat(outcome.qty_raw).v ELSE 1)

\* A candidate whose cell exists, is not null and is non-empty after trimming.
Usable(r, name) ==
    name \in DOMAIN r /\ r[name].k # "nan" /\ Strip(CellStr(r[name])) # <<>>

\* What the lookup is to return: the trimmed cell of the usable candidate of
\* least position, the default when there is none.
LookupExpected(r, names, default) ==
    LET usable == {i \in 1..Len(names) : Usable(r, names[i])}
    IN  IF usable = {} THEN default
        ELSE Strip(CellStr(r[names[SetMin(usable)]]))

\* C5: get_column_value returns the trimmed cell of the first candidate, in
\* priority order, that exists, is not null and is non-empty after trimming,
\* and the default exactly when no candidate is such; checked on every lookup
\* create_invoice_pdf makes of the row it is given.
C5_LookupFirstUsable ==
    outcome.called =>
        /\ outcome.order_id = LookupExpected(row, OrderIdNames, T_dash)
        /\ outcome.nama = LookupExpected(row, NamaNames, T_dash)
        /\ outcome.qty_raw = LookupExpected(row, QtyNames, T_one)
        /\ outcome.metode_bayar = LookupExpected(row, MetodeNames, T_dash)
        /\ outcome.status_bayar = LookupExpected(row, StatusNames, T_dash)

\* The first candidate is null, the second absent and the fifth holds " A1 ":
\* the lookup returns the trimmed fifth.
C5_Witness ==
    /\ outcome.called
    /\ "ORDER-ID" \in DOMAIN row /\ row["ORDER-ID"] = NaN
    /\ "Order ID" \notin DOMAIN row
    /\ "OrderID" \in DOMAIN row /\ row["OrderID"] = StrCell(<<" ", "A", "1", " ">>)
    /\ outcome.order_id = t_A1

\* The payment-method text holds "dp" or "50%", whatever the case of its letters.
DpEvidence(text) ==
    \E i \in 1..Len(text) :
        \/ i + 1 <= Len(text) /\ text[i] \in {"d", "D"} /\ text[i + 1] \in {"p", "P"}
        \/ i + 2 <= Len(text) /\ text[i] = "5" /\ text[i + 1] = "0" /\ text[i + 2] = "%"

\* The payment-status text holds "lunas", whatever the case of its letters.
LunasEvidence(text) ==
    \E i \in 1..Len(text) :
        /\ i + 4 <= Len(text)
        /\ text[i] \in {"l", "L"} /\ text[i + 1] \in {"u", "U"} /\ text[i + 2] \in {"n", "N"}
        /\ text[i + 3] \in {"a", "A"} /\ text[i + 4] \in {"s", "S"}

\* C6: isDownPayment is true exactly when the payment-method text holds "dp"
\* or "50%"; amountPaid is half the total on a down payment whatever the
\* status, else the total when the status holds "lunas", else 0; unit price
\* 100000, quantity 2 and method "DP" give 200000, 100000 and 100000.
C6_PaymentClassification ==
    RecordBuilt(outcome) =>
        /\ outcome.is_dp = DpEvidence(outcome.metode_bayar)
        /\ outcome.metode_bayar = T_dash => ~outcome.is_dp
        /\ outcome.is_dp => outcome.jumlah_dibayar = outcome.total_harga   \* half the total
        /\ (~outcome.is_dp /\ LunasEvidence(outcome.status_bayar))
              => outcome.jumlah_dibayar = HalfUnit * outcome.total_harga
        /\ (~outcome.is_dp /\ ~LunasEvidence(outcome.status_bayar))
              => outcome.jumlah_dibayar = 0
        /\ (HARGA_SATUAN = 100000 /\ outcome.qty = 2 /\ outcome.metode_bayar = t_DP)
              => /\ outcome.total_harga = 200000
                 /\ outcome.jumlah_dibayar = HalfUnit * 100000
                 /\ outcome.sisa_tagihan = HalfUnit * 100000

\* unitPrice 100000, quantity 2, method "DP", with a status that says LUNAS.
C6_Witness ==
    /\ RecordBuilt(outcome) /\ HARGA_SATUAN = 100000 /\ outcome.qty = 2
    /\ outcome.metode_bayar = t_DP /\ LunasEvidence(outcome.status_bayar)
    /\ outcome.is_dp /\ outcome.jumlah_dibayar = HalfUnit * 100000

\* The document was rendered: the record was built and doc.build completed.
Rendered(o) == RecordBuilt(o) /\ o.written

\* The payment summary has a remaining-due line.
HasDueLine(o) == \E i \in 1..Len(o.summary_data) : o.summary_data[i] = "SISA TAGIHAN:"

\* C12: the bank transfer block is part of the rendered document exactly
\* when amountDue > 0; unit price 100000, quantity 1, status "LUNAS" and a
\* method that is no down payment give paid 100000, due 0 and no block.
C12_BankBlockIffDue ==
    Rendered(outcome) =>
        /\ outcome.bank_block <=> outcome.sisa_tagihan > 0
        /\ (HARGA_SATUAN = 100000 /\ outcome.qty = 1 /\ outcome.status_bayar = t_LUNAS
              /\ ~DpEvidence(outcome.metode_bayar))
              => /\ outcome.jumlah_dibayar = HalfUnit * 100000
                 /\ outcome.sisa_tagihan = 0
                 /\ ~outcome.bank_block

\* Unit price 100000, quantity 1, method COD, status LUNAS: settled, no block.
C12_Witness ==
    /\ Rendered(outcome) /\ HARGA_SATUAN = 100000 /\ outcome.qty = 1
    /\ outcome.status_bayar = t_LUNAS /\ outcome.metode_bayar = t_COD
    /\ outcome.sisa_tagihan = 0 /\ ~outcome.bank_block

\* C16: in the payment summary of a rendered document the emphasised line is
\* the remaining-due line when there is one, and no line is emphasised when
\* there is none (no down payment and amountDue = 0).
C16_OnlyDueLineEmphasised ==
    Rendered(outcome) =>
        \A i \in 1..Len(outcome.summary_data) :
            (outcome.highlighted = i) <=> (outcome.summary_data[i] = "SISA TAGIHAN:")

\* C18: whenever the status banner of a rendered document with a total > 0
\* is in the paid colour, amountDue = 0, no remaining-due line is shown and
\* the bank transfer block is omitted, for every payment method and status.
C18_PaidBannerMeansSettled ==
    (Rendered(outcome) /\ outcome.total_harga > 0
        /\ outcome.status_color = "SUCCESS_COLOR")
        => /\ outcome.sisa_tagihan = 0
           /\ ~HasDueLine(outcome)
           /\ ~outcome.bank_block

\* C18 as amended: the paid colour means settled when the method is no down
\* payment; on a down payment the banner is in the paid colour while half
\* the total remains due, with its line and the bank transfer block.
C18_PaidBannerSettledUnlessDp ==
    (Rendered(outcome) /\ outcome.total_harga > 0
        /\ outcome.status_color = "SUCCESS_COLOR")
        => IF outcome.is_dp
           THEN /\ outcome.sisa_tagihan = outcome.total_harga   \* half the total
                /\ HasDueLine(outcome)
                /\ outcome.bank_block
           ELSE /\ outcome.sisa_tagihan = 0
                /\ ~HasDueLine(outcome)
                /\ ~outcome.bank_block

\* A fully paid order that is no down payment, rendered with the paid colour.
C18_Witness ==
    /\ Rendered(outcome) /\ outcome.total_harga > 0 /\ ~outcome.is_dp
    /\ outcome.status_bayar = t_LUNAS /\ outcome.status_color = "SUCCESS_COLOR"
    /\ outcome.sisa_tagihan = 0 /\ Len(outcome.summary_data) = 2


-----------------------------------------------------------------------------
(* The batch run: main() *)

\* Lines of a file that has an order id column, as texts (the first two
\* resolve to the same order id and customer name; <<>> is an empty field).
LinesWithId ==
    { "ORDER-ID" :> t_A1 @@ "Nama Lengkap" :> t_Jane @@ "Jumlah (QTY)" :> <<"2">>
        @@ "Metode Pembayaran" :> t_DP @@ "STATUS PEMBAYARAN" :> t_Belum,
      "ORDER-ID" :> t_A1 @@ "Nama Lengkap" :> t_Jane @@ "Jumlah (QTY)" :> <<"1">>
        @@ "Metode Pembayaran" :> t_COD @@ "STATUS PEMBAYARAN" :> t_LUNAS,
      "ORDER-ID" :> <<>> @@ "Nama Lengkap" :> t_Jane @@ "Jumlah (QTY)" :> <<"a", "b", "c">>
        @@ "Metode Pembayaran" :> t_COD @@ "STATUS PEMBAYARAN" :> t_Belum,
      "ORDER-ID" :> <<"O", "R", "/", "D", "E", "R", ":", "1">> @@ "Nama Lengkap" :> t_Jane
        @@ "Jumlah (QTY)" :> <<"i", "n", "f">>
        @@ "Metode Pembayaran" :> t_DP @@ "STATUS PEMBAYARAN" :> t_LUNAS }

\* Lines of a file that has no order id column.
LinesWithoutId ==
    { "Nama" :> t_Jane @@ "Qty" :> <<"1">> @@ "Metode" :> t_DP
        @@ "Status" :> <<"L", "u", "n", "a", "s">>,
      "Nama" :> <<>> @@ "Qty" :> <<"0">> @@ "Metode" :> t_COD @@ "Status" :> <<>> }

\* The files of at most MaxRows lines; the lines of a file share its header.
FileLines ==
    UNION { [1..n -> LinesWithId] \cup [1..n -> LinesWithoutId] : n \in 0..MaxRows }

\* A line as the file holds it: every label carries surrounding blanks or not.
RawRow(r, pad) ==
    [h \in {[name |-> l, pad |-> pad] : l \in DOMAIN r} |-> r[h.name]]

RawFrame(f, pad) == [i \in 1..Len(f) |-> RawRow(f[i], pad)]

\* clean_column_names: df.columns = df.columns.str.strip()
clean_column_names(frame) ==
    [i \in 1..Len(frame) |->
        [l \in {h.name : h \in DOMAIN frame[i]} |->
            frame[i][CHOOSE h \in DOMAIN frame[i] : h.name = l]]]

\* Fields pandas reads as a missing value.
NaTexts == {<<>>, w_nan, <<"N", "a", "N">>, <<"N", "A">>}

IsIntText(t) == Unsigned(t) # <<>> /\ AllDigits(Unsigned(t))

IsFloatText(t) == PyFloat(t).k \in {"num", "inf"}

\* The dtype pandas infers for a column from the texts of its fields.  (The
\* float texts of the files modelled here are integral or infinite.)
ColumnKind(texts) ==
    IF \A t \in texts : t \in NaTexts THEN "float"
    ELSE IF \A t \in texts : IsIntText(t) THEN "int"
    ELSE IF \A t \in texts : t \in NaTexts \/ IsFloatText(t) THEN "float"
    ELSE "object"

\* The cell of a field in a column of the given dtype.
CellOf(kind, t) ==
    IF t \in NaTexts THEN NaN
    ELSE IF kind = "int" THEN IntCell(PyFloat(t).v)
    ELSE IF kind = "float"
         THEN (IF PyFloat(t).k = "inf" THEN FloatInfCell ELSE FloatCell(PyFloat(t).v))
    ELSE StrCell(t)

\* The data frame of the lines of a file: every column gets its dtype.
ParseFrame(lines) ==
    [i \in 1..Len(lines) |->
        [h \in DOMAIN lines[i] |->
            CellOf(ColumnKind({lines[j][h] : j \in 1..Len(lines)}), lines[i][h])]]

\* pd.read_csv(csv_path, encoding=...)
pd_read_csv(file, encoding) ==
    IF encoding = "utf-8" /\ ~file.utf8 THEN [raised |-> "UnicodeDecodeError", frame |-> <<>>]
    ELSE IF ~file.parses THEN [raised |-> "ParserError", frame |-> <<>>]
    ELSE [raised |-> "", frame |-> ParseFrame(file.rows)]

\* lines 470-475: utf-8 first, latin-1 when the bytes are not UTF-8
ReadWithFallback(file) ==
    LET first == pd_read_csv(file, "utf-8")
    IN  IF first.raised = "UnicodeDecodeError" THEN pd_read_csv(file, "latin-1") ELSE first

NoFile == [exists |-> FALSE, utf8 |-> TRUE, parses |-> TRUE, rows |-> <<>>]

InitBatch ==
    /\ HARGA_SATUAN \in UnitPrices
    /\ csv_file \in {NoFile} \cup
         { [exists |-> TRUE, utf8 |-> u, parses |-> p, rows |-> RawFrame(f, pad)] :
             u \in BOOLEAN, p \in BOOLEAN, f \in FileLines, pad \in BOOLEAN }
    /\ df = <<>> /\ pc = "start" /\ index = 0
    /\ success_count = 0 /\ error_count = 0 /\ output_dir = {}
    /\ attempted = <<>> /\ summary_printed = FALSE
    /\ CallIdle /\ WebIdle /\ FnIdle

\* lines 445-467: the CSV must exist; the output folder and the logo are prepared
CheckCsv ==
    /\ pc = "start"
    /\ pc' = IF csv_file.exists THEN "read" ELSE "exit_not_found"
    /\ UNCHANGED <<fnVars, HARGA_SATUAN, csv_file, df, index, success_count, error_count,
                   output_dir, attempted, summary_printed, callVars, webVars>>

\* Mutant of ReadCsv: a read error is reported and the run goes on with no rows.
ReadCsvGoesOn ==
    /\ pc = "read"
    /\ LET res == ReadWithFallback(csv_file)
       IN  /\ df' = IF res.raised = "" THEN clean_column_names(res.frame) ELSE <<>>
           /\ pc' = "loop"
    /\ UNCHANGED <<fnVars, HARGA_SATUAN, csv_file, index, success_count, error_count,
                   output_dir, attempted, summary_printed, callVars, webVars>>

\* lines 469-486
ReadCsv ==
    /\ pc = "read"
    /\ LET res == ReadWithFallback(csv_file)
       IN  IF res.raised = ""
           THEN df' = clean_column_names(res.frame) /\ pc' = "loop"
           ELSE df' = df /\ pc' = "exit_read_error"
    /\ UNCHANGED <<fnVars, HARGA_SATUAN, csv_file, index, success_count, error_count,
                   output_dir, attempted, summary_printed, callVars, webVars>>

\* Mutant of PcAfterRow: no try/except around the row, an exception ends the run.
PcAfterRowUncaught(raised) == IF raised = "" THEN "loop" ELSE "crashed"

\* lines 496 and 513: the exception of a row is caught and the loop goes on
PcAfterRow(raised) == "loop"

\* lines 498-505: the order id and the filename main() derives for a row
MainOrderId(r, i) == get_column_value(r, OrderIdNames, T_ORDER \o IntToStr(i + 1))
MainNama(r) == get_column_value(r, NamaNames, T_Unknown)

\* lines 498-505: the output path of a row
RowFilename(r, i) == InvoiceFilename(MainOrderId(r, i), MainNama(r))

\* lines 495-515: one iteration of the loop; outcome is the result of the
\* call of create_invoice_pdf it makes
ProcessRow ==
    /\ pc = "loop" /\ index < Len(df)
    /\ \E build_ok \in BOOLEAN :
          outcome' = create_invoice_pdf(df[index + 1], index,
                                        RowFilename(df[index + 1], index),
                                        "logo_path", build_ok)
    /\ IF outcome'.raised = ""
       THEN /\ output_dir' = {f \in output_dir : f.filename # outcome'.output_path}
                               \cup {[filename |-> outcome'.output_path,
                                      order_id |-> MainOrderId(df[index + 1], index),
                                      doc |-> outcome']}
            /\ success_count' = success_count + 1
            /\ error_count' = error_count
       ELSE /\ output_dir' = output_dir
            /\ success_count' = success_count
            /\ error_count' = error_count + 1
    /\ attempted' = Append(attempted, [pos |-> index + 1, ok |-> outcome'.raised = ""])
    /\ pc' = PcAfterRow(outcome'.raised)
    /\ index' = index + 1
    /\ UNCHANGED <<fnVars, HARGA_SATUAN, csv_file, df, summary_printed, row, row_index, webVars>>

\* lines 517-527
Summary ==
    /\ pc = "loop" /\ index = Len(df)
    /\ summary_printed' = TRUE
    /\ pc' = "done"
    /\ UNCHANGED <<fnVars, HARGA_SATUAN, csv_file, df, index, success_count, error_count,
                   output_dir, attempted, callVars, webVars>>

Next == CheckCsv \/ ReadCsv \/ ProcessRow \/ Summary

Init == InitBatch

Spec == Init /\ [][Next]_vars

\* A row is waiting for the loop: ProcessRow is enabled exactly then, since
\* create_invoice_pdf yields a result for every row.
RowPending == pc = "loop" /\ index < Len(df)

\* The file is waiting to be read: ReadCsv is enabled exactly then.
ReadPending == pc = "read"

\* main() is a sequential program: a step that can be taken is taken.  The
\* last two conjuncts are WF_vars(ReadCsv) and WF_vars(ProcessRow) with
\* ENABLED written out as ReadPending and RowPending.
FairSpec ==
    /\ Spec
    /\ WF_vars(CheckCsv) /\ WF_vars(Summary)
    /\ ([]<>(~ReadPending) \/ []<><<ReadCsv>>_vars)
    /\ ([]<>(~RowPending) \/ []<><<ProcessRow>>_vars)

-----------------------------------------------------------------------------
(* Properties of the batch run *)

\* No accepted order id label of the row holds a usable cell.
NoOrderId(r) == \A i \in 1..Len(OrderIdNames) : ~Usable(r, OrderIdNames[i])

\* C7: for a row without a usable order id cell, the order id on the title
\* row of the written document is the placeholder ORDER{rowIndex+1}, the id
\* the output filename of the row is built from.
C7_PlaceholderOrderId ==
    \A f \in output_dir :
        NoOrderId(df[f.doc.row_index + 1]) =>
            /\ f.doc.order_id = T_ORDER \o IntToStr(f.doc.row_index + 1)
            /\ f.doc.order_id = f.order_id

\* The file can be read: it exists and parses (as UTF-8, or as latin-1 when
\* its bytes are not UTF-8).
Readable == csv_file.exists /\ csv_file.parses

\* C9: a batch run over a readable file of N rows reaches the summary
\* whatever rows raise, having attempted every row once in file order, with
\* success_count + error_count = N and every row in exactly one counter.
C9_BatchCompletes ==
    /\ [](pc = "done" =>
            /\ summary_printed
            /\ Len(attempted) = Len(df)
            /\ \A i \in 1..Len(attempted) : attempted[i].pos = i
            /\ success_count + error_count = Len(df)
            /\ success_count = Cardinality({i \in 1..Len(attempted) : attempted[i].ok})
            /\ error_count = Cardinality({i \in 1..Len(attempted) : ~attempted[i].ok}))
    /\ [](pc \in {"start", "read", "loop", "done", "exit_not_found", "exit_read_error"})
    /\ (Readable => <>(pc = "done"))

\* The summary after a run of two or more rows of which one raised and one did not.
C9_Witness ==
    /\ pc = "done" /\ Len(df) >= 2 /\ success_count >= 1 /\ error_count >= 1

\* C10: when the CSV file is missing or cannot be read, the run stops before
\* any row is processed: no document is written, no row is counted or
\* attempted, the summary is not printed, and the loop is never entered.
C10_FileFailureIsFatal ==
    ~Readable =>
        /\ output_dir = {} /\ attempted = <<>>
        /\ success_count = 0 /\ error_count = 0
        /\ ~summary_printed
        /\ pc \in {"start", "read", "exit_not_found", "exit_read_error"}

\* The run ended on a file that exists, is not UTF-8 and does not parse as latin-1.
C10_Witness ==
    /\ pc = "exit_read_error" /\ csv_file.exists /\ ~csv_file.utf8 /\ ~csv_file.parses
    /\ Len(csv_file.rows) > 0

\* C13: at the end of a batch run the output directory holds one document
\* per successful row: the number of distinct documents the run produced is
\* success_count, whatever order ids and names the rows resolve to.
C13_OneDocumentPerRecord ==
    pc = "done" => Cardinality({f.filename : f \in output_dir}) = success_count

-----------------------------------------------------------------------------
(* The interactive front end: web_app.py *)

\* Values of the sidebar's unit price field (min_value 0, step 10000).
SidebarPrices == {0, 50000, DefaultHargaSatuan, 150000}

\* The files an operator may upload.
UploadFiles ==
    { [exists |-> TRUE, utf8 |-> u, parses |-> p, rows |-> RawFrame(f, pad)] :
        u \in BOOLEAN, p \in BOOLEAN, f \in FileLines, pad \in BOOLEAN }

NoResults == [has_results |-> FALSE, generated_files |-> <<>>, generation_errors |-> <<>>]

InitWeb ==
    /\ HARGA_SATUAN = DefaultHargaSatuan
    /\ harga_satuan \in SidebarPrices
    /\ uploaded_df = <<>> /\ web_state = "empty" /\ pilih = <<>>
    /\ session_state = NoResults
    /\ BatchIdle /\ CallIdle /\ FnIdle

StatsQtyNames == <<"Jumlah (QTY)", "Jumlah", "QTY", "Qty">>

\* lines 242-246: the first quantity label among the frame's columns (0: none)
QtyCol(frame) ==
    IF frame # <<>> /\ \E i \in 1..Len(StatsQtyNames) : StatsQtyNames[i] \in DOMAIN frame[1]
    THEN SetMin({i \in 1..Len(StatsQtyNames) : StatsQtyNames[i] \in DOMAIN frame[1]})
    ELSE 0

\* int(text) of a cell of an object column
IsPyIntText(t) == IsIntText(Strip(t))

\* line 248: .fillna(1).astype(int) raises on this cell
AstypeIntRaises(c) ==
    \/ c.k = "str" /\ ~IsPyIntText(c.t)
    \/ c.k = "float" /\ c.t = w_inf

\* lines 247-250: the statistics of the uploaded frame raise
StatsRaise(frame) ==
    /\ QtyCol(frame) # 0
    /\ \E i \in 1..Len(frame) : AstypeIntRaises(frame[i][StatsQtyNames[QtyCol(frame)]])

\* lines 217-254 and 409-411: the script run after a file is uploaded
Upload ==
    /\ web_state = "empty"
    /\ \E file \in UploadFiles :
          IF ReadWithFallback(file).raised # ""
          THEN /\ web_state' = "read_error"
               /\ UNCHANGED <<uploaded_df, pilih>>
          ELSE IF StatsRaise(clean_column_names(ReadWithFallback(file).frame))
          THEN /\ web_state' = "read_error"       \* df was read; no table is drawn
               /\ uploaded_df' = clean_column_names(ReadWithFallback(file).frame)
               /\ pilih' = pilih
          ELSE /\ web_state' = "table"
               /\ uploaded_df' = clean_column_names(ReadWithFallback(file).frame)
               /\ pilih' = [i \in 1..Len(ReadWithFallback(file).frame) |-> TRUE]
    /\ UNCHANGED <<fnVars, HARGA_SATUAN, harga_satuan, session_state, batchVars, callVars>>

\* lines 262-275: the operator ticks or unticks the 'Pilih' box of a row
ToggleRow ==
    /\ web_state = "table"
    /\ \E i \in 1..Len(pilih) : pilih' = [pilih EXCEPT ![i] = ~pilih[i]]
    /\ UNCHANGED <<fnVars, HARGA_SATUAN, uploaded_df, web_state, harga_satuan, session_state,
                   batchVars, callVars>>

\* lines 155-161: the operator edits the unit price in the sidebar
SetHarga ==
    /\ \E h \in SidebarPrices : h # harga_satuan /\ harga_satuan' = h
    /\ UNCHANGED <<fnVars, HARGA_SATUAN, uploaded_df, web_state, pilih, session_state,
                   batchVars, callVars>>

\* line 278: the positions of the rows whose box is ticked, in order
SelectedRows == SelectSeq([i \in 1..Len(pilih) |-> i], LAMBDA i : pilih[i])

\* The keyword arguments of the call of line 331.
WebCallKeywords == {"config"}

\* The call ended before the body of the function ran.
TypeErrorResult(output_path) ==
    [called |-> TRUE, raised |-> "TypeError", written |-> FALSE, output_path |-> output_path]

\* line 331: create_invoice_pdf(row, idx, output_path, None, config=pdf_config);
\* Python binds the arguments to the parameters before the body runs.
WebCall(r, idx, output_path, build_ok) ==
    IF WebCallKeywords \subseteq CreateInvoicePdfParams
    THEN create_invoice_pdf(r, idx, output_path, "None", build_ok)
    ELSE TypeErrorResult(output_path)

\* lines 305-337: what the loop does for the idx-th selected row (idx from 0)
WebRow(r, idx, build_ok) ==
    [order_id |-> get_column_value(r, OrderIdNames, T_ORDER \o IntToStr(idx + 1)),
     config_harga_satuan |-> harga_satuan,
     out |-> WebCall(r, idx,
                     InvoiceFilename(get_column_value(r, OrderIdNames,
                                                      T_ORDER \o IntToStr(idx + 1)),
                                     get_column_value(r, NamaNames, T_Unknown)),
                     build_ok)]

\* lines 302-340: the pass over the selected rows
WebPass(build_oks) ==
    [k \in 1..Len(SelectedRows) |-> WebRow(uploaded_df[SelectedRows[k]], k - 1, build_oks[k])]

\* lines 290-350: the Generate button (disabled when no row is selected)
Generate ==
    /\ web_state = "table" /\ Len(SelectedRows) > 0
    /\ \E build_oks \in [1..Len(SelectedRows) -> BOOLEAN] :
          session_state' =
              [has_results |-> TRUE,
               generated_files |->
                   SelectSeq(WebPass(build_oks), LAMBDA g : g.out.raised = ""),
               generation_errors |->
                   SelectSeq(WebPass(build_oks), LAMBDA g : g.out.raised # "")]
    /\ UNCHANGED <<fnVars, HARGA_SATUAN, uploaded_df, web_state, pilih, harga_satuan,
                   batchVars, callVars>>

\* lines 402-407: the Clear Results button.  It is drawn only while
\* generated_files is not empty, which no pass brings about, so that it is
\* no step of NextWeb.
ClearResults ==
    /\ web_state = "table"
    /\ session_state.has_results /\ session_state.generated_files # <<>>
    /\ session_state' = NoResults
    /\ UNCHANGED <<fnVars, HARGA_SATUAN, uploaded_df, web_state, pilih, harga_satuan,
                   batchVars, callVars>>

NextWeb == Upload \/ ToggleRow \/ SetHarga \/ Generate

WebSpec == InitWeb /\ [][NextWeb]_vars

\* C8: after Generate, every processed row that did not fail in rendering
\* is an entry of generated_files and not an error entry, and the total of
\* its invoice is the sidebar's unit price of that pass times its quantity.
C8_GenerateUsesSidebarPrice ==
    session_state.has_results =>
        /\ \A i \in 1..Len(session_state.generation_errors) :
              session_state.generation_errors[i].out.raised = "BuildError"
        /\ \A i \in 1..Len(session_state.generated_files) :
              session_state.generated_files[i].out.total_harga
                  = session_state.generated_files[i].config_harga_satuan
                      * session_state.generated_files[i].out.qty

\* line 353: the results block is drawn on a run of the script
ResultsShown(ss) == ss.has_results /\ ss.generated_files # <<>>

\* lines 363-367, inside the results block: the warning and the list of
\* "{order_id}: {message}" entries
ErrorsShown(ss) == ResultsShown(ss) /\ ss.generation_errors # <<>>

\* lines 369-400, inside the results block: the ZIP and per-file downloads
DownloadsShown(ss) == ResultsShown(ss)

\* C11: after a generation pass the error list is displayed whenever it is
\* not empty, for any number of successful rows of the pass (none included),
\* and the outputs that succeeded are offered for download.
C11_ErrorsSurfaced ==
    session_state.has_results =>
        /\ session_state.generation_errors # <<>> => ErrorsShown(session_state)
        /\ session_state.generated_files # <<>> => DownloadsShown(session_state)

-----------------------------------------------------------------------------
(* The filename of a row: sanitize_filename *)

MaxNameLen == 3       \* characters of an order id drawn from NameChars

\* Every character sanitize_filename rewrites, the underscore, and two it keeps.
NameChars == IllegalChars \cup {" ", "_", "a", "b"}

\* The texts of at most n characters of chars.
TextsUpTo(chars, n) == UNION { [1..k -> chars] : k \in 0..n }

t_OR_DER_1 == <<"O", "R", "/", "D", "E", "R", ":", "1">>

OrderIdTexts == TextsUpTo(NameChars, MaxNameLen) \cup {t_OR_DER_1}

InitFilename ==
    /\ HARGA_SATUAN = DefaultHargaSatuan
    /\ fn_args \in { [order_id |-> o, nama |-> t_Jane] : o \in OrderIdTexts }
    /\ fn_result = NoResult
    /\ BatchIdle /\ CallIdle /\ WebIdle

\* lines 501-504: the sanitised order id and name, and the filename
MakeFilename ==
    /\ ~fn_result.returned /\ DOMAIN fn_args = {"order_id", "nama"}
    /\ fn_result' = [returned |-> TRUE,
                     safe_order_id |-> sanitize_filename(fn_args.order_id),
                     safe_nama |-> sanitize_filename(fn_args.nama),
                     filename |-> InvoiceFilename(fn_args.order_id, fn_args.nama)]
    /\ UNCHANGED <<fn_args, HARGA_SATUAN, callVars, batchVars, webVars>>

NextFilename == MakeFilename

FilenameSpec == InitFilename /\ [][NextFilename]_vars

\* The characters the first two steps of sanitize_filename replace.
ReplacedChars == IllegalChars \cup {" "}

\* a is b with some of its characters left out.
RECURSIVE IsSubseq(_, _)
IsSubseq(a, b) ==
    IF a = <<>> THEN TRUE
    ELSE IF b = <<>> THEN FALSE
    ELSE IF a[1] = b[1] THEN IsSubseq(Tail(a), Tail(b))
    ELSE IsSubseq(a, Tail(b))

\* No replaced character, no two underscores in a row, none at either end.
CleanName(s) ==
    /\ \A i \in 1..Len(s) : s[i] \notin ReplacedChars
    /\ \A i \in 1..Len(s) - 1 : ~(s[i] = "_" /\ s[i + 1] = "_")
    /\ s # <<>> => (s[1] # "_" /\ s[Len(s)] # "_")

\* The sanitised order id and name of a filename that was made.
FilenameMade == fn_result.returned /\ DOMAIN fn_args = {"order_id", "nama"}

t_Invoice_OR_DER_1_Jane_Doe ==
    <<"I", "n", "v", "o", "i", "c", "e", "_", "O", "R", "_", "D", "E", "R", "_", "1",
      "_", "J", "a", "n", "e", "_", "D", "o", "e", ".", "p", "d", "f">>

\* C14: the result of sanitize_filename holds no illegal character and no
\* space, no two consecutive underscores and none at either end, and every
\* character of the input other than the illegal ones and the space is kept,
\* in order; "OR/DER:1" and "Jane Doe" give Invoice_OR_DER_1_Jane_Doe.pdf.
C14_SanitizedName ==
    FilenameMade =>
        /\ CleanName(fn_result.safe_order_id) /\ CleanName(fn_result.safe_nama)
        /\ IsSubseq(SelectSeq(fn_args.order_id, LAMBDA c : c \notin ReplacedChars),
                    fn_result.safe_order_id)
        /\ fn_args.order_id = t_OR_DER_1 => fn_result.filename = t_Invoice_OR_DER_1_Jane_Doe

\* C14 as amended: as above, but the characters kept in order are those
\* other than the illegal ones, the space and the underscore; the result
\* holds them and underscores only.
C14_SanitizedNameKeepsOthers ==
    FilenameMade =>
        /\ CleanName(fn_result.safe_order_id) /\ CleanName(fn_result.safe_nama)
        /\ SelectSeq(fn_result.safe_order_id, LAMBDA c : c # "_")
              = SelectSeq(fn_args.order_id, LAMBDA c : c \notin ReplacedChars \cup {"_"})
        /\ fn_args.order_id = t_OR_DER_1 => fn_result.filename = t_Invoice_OR_DER_1_Jane_Doe

\* The filename of order id "OR/DER:1" and name "Jane Doe".
C14_Witness ==
    /\ FilenameMade /\ fn_args.order_id = t_OR_DER_1 /\ fn_args.nama = t_Jane
    /\ fn_result.filename = t_Invoice_OR_DER_1_Jane_Doe

-----------------------------------------------------------------------------
(* wrap_text *)

MaxTextLen == 5       \* characters of a text handed to wrap_text
MaxWidth == 3         \* largest max_chars

TextChars == {"a", "b", " "}

\* str.split() with a word under way and the words found so far
RECURSIVE SplitAcc(_, _, _)
SplitAcc(s, word, words) ==
    IF s = <<>> THEN (IF word = <<>> THEN words ELSE Append(words, word))
    ELSE IF s[1] \in Whitespace
         THEN SplitAcc(Tail(s), <<>>, IF word = <<>> THEN words ELSE Append(words, word))
    ELSE SplitAcc(Tail(s), Append(word, s[1]), words)

\* text.split(): the maximal runs of characters that are not whitespace
SplitWords(s) == SplitAcc(s, <<>>, <<>>)

\* lines 96-105: the loop over the words and the flush of the last line
RECURSIVE WrapLoop(_, _, _, _)
WrapLoop(words, lines, current_line, max_chars) ==
    IF words = <<>>
    THEN (IF current_line # <<>> THEN Append(lines, current_line) ELSE lines)
    ELSE IF Len(current_line) + Len(words[1]) + 1 <= max_chars
         THEN WrapLoop(Tail(words), lines,
                       IF current_line # <<>> THEN current_line \o <<" ">> \o words[1]
                       ELSE words[1],
                       max_chars)
    ELSE WrapLoop(Tail(words),
                  IF current_line # <<>> THEN Append(lines, current_line) ELSE lines,
                  words[1], max_chars)

\* '\n'.join(lines)
RECURSIVE JoinLines(_)
JoinLines(lines) ==
    IF lines = <<>> THEN <<>>
    ELSE IF Len(lines) = 1 THEN lines[1]
    ELSE lines[1] \o <<"\n">> \o JoinLines(Tail(lines))

\* lines 90-107, for a text that is a str
WrappedText(text, max_chars) ==
    IF Len(text) <= max_chars THEN text
    ELSE JoinLines(WrapLoop(SplitWords(text), <<>>, <<>>, max_chars))

\* wrap_text(text, max_chars); text is a cell
wrap_text(text, max_chars) ==
    IF ~NotNa(text) \/ (text.k = "str" /\ text.t = <<>>) THEN T_dash
    ELSE WrappedText(CellStr(text), max_chars)

WrapTexts == {NaN} \cup { StrCell(t) : t \in TextsUpTo(TextChars, MaxTextLen) }

InitWrap ==
    /\ HARGA_SATUAN = DefaultHargaSatuan
    /\ fn_args \in { [text |-> c, max_chars |-> m] : c \in WrapTexts, m \in 1..MaxWidth }
    /\ fn_result = NoResult
    /\ BatchIdle /\ CallIdle /\ WebIdle

\* wrap_text(text, max_chars)
CallWrapText ==
    /\ ~fn_result.returned /\ DOMAIN fn_args = {"text", "max_chars"}
    /\ fn_result' = [returned |-> TRUE, value |-> wrap_text(fn_args.text, fn_args.max_chars)]
    /\ UNCHANGED <<fn_args, HARGA_SATUAN, callVars, batchVars, webVars>>

NextWrap == CallWrapText

WrapSpec == InitWrap /\ [][NextWrap]_vars

\* The lines of a text, as its line breaks divide it.
RECURSIVE SplitLinesAcc(_, _, _)
SplitLinesAcc(s, line, lines) ==
    IF s = <<>> THEN Append(lines, line)
    ELSE IF s[1] = "\n" THEN SplitLinesAcc(Tail(s), <<>>, Append(lines, line))
    ELSE SplitLinesAcc(Tail(s), Append(line, s[1]), lines)

OutputLines(s) == SplitLinesAcc(s, <<>>, <<>>)

\* The words of the lines, line after line.
RECURSIVE WordsOfLines(_)
WordsOfLines(lines) ==
    IF lines = <<>> THEN <<>> ELSE SplitWords(lines[1]) \o WordsOfLines(Tail(lines))

\* wrap_text returned for a text that is longer than max_chars.
WrappedLong ==
    /\ fn_result.returned /\ DOMAIN fn_args = {"text", "max_chars"}
    /\ fn_args.text.k = "str" /\ Len(fn_args.text.t) > fn_args.max_chars

-----------------------------------------------------------------------------
(* Properties of the upload *)

\* The quantity column of the frame holds a cell that is no number.
HasMalformedQty(frame) ==
    /\ QtyCol(frame) # 0
    /\ \E i \in 1..Len(frame) :
          /\ frame[i][StatsQtyNames[QtyCol(frame)]].k = "str"
          /\ PyFloat(frame[i][StatsQtyNames[QtyCol(frame)]].t).k = "err"

\* C17: a readable CSV that was uploaded reaches the row-selection table,
\* every row selectable, also when its quantity column holds a cell that is
\* no number; it does not end in the "error reading CSV" state.
C17_MalformedQuantityTolerated ==
    (uploaded_df # <<>> /\ HasMalformedQty(uploaded_df))
        => /\ web_state = "table"
           /\ Len(pilih) = Len(uploaded_df)

====
